---- MODULE Spec2Model ----
(***************************************************************************)
(* Model of src/server.py: the single-slot OAuth token store               *)
(* (stored_token), the /auth, /oauth2callback and /health handlers, the    *)
(* MCP tools list_drive_files, search_drive_files and get_auth_status,     *)
(* and the MCPRouter middleware.                                           *)
(*                                                                         *)
(* Scheduling.  The three HTTP handlers are plain `def` functions, which   *)
(* FastAPI runs on worker threads; the tools are `async def` functions     *)
(* without any await, which run one at a time on the event loop thread.    *)
(* A worker thread can be scheduled between any two reads of the global    *)
(* stored_token made by a tool, so a tool is modelled as one step per      *)
(* read of stored_token, and the callback as one step per blocking point   *)
(* (POST sent, response received and parsed, global written).              *)
(*                                                                         *)
(* Text is a sequence of tokens: a token is one reserved character or a    *)
(* chunk of unreserved characters.  None is Python's None where a str is   *)
(* expected.                                                               *)
(***************************************************************************)
EXTENDS Integers, Sequences, FiniteSets, TLC

(* ---------------------------------------------------------------- bounds *)

\* POSTs to the token endpoint in one run of the model.
MaxPosts == 2


(* ------------------------------------------------------ values and config *)

None == <<"<None>">>

\* Python truthiness of a str-or-None value: `not s` is true for None and "".
StrTruthy(s) == s # None /\ s # <<>>

OWNER_EMAIL == "owner@example.com"

SCOPES ==
    << <<"https", ":", "/", "/", "www.googleapis.com", "/", "auth", "/",
         "drive.metadata.readonly">> >>

AUTH_ENDPOINT ==
    <<"https", ":", "/", "/", "accounts.google.com", "/", "o", "/", "oauth2",
      "/", "v2", "/", "auth">>

TOKEN_URI == "https://oauth2.googleapis.com/token"

\* The environments the process can be started in (os.getenv gives None
\* for an unset variable and "" for one set to the empty string).
Environments ==
    { [id |-> <<"a", "&", "b", "=", "c">>, secret |-> <<"xyz">>,
       redirect |-> <<"https", ":", "/", "/", "x", "/", "cb", "?", "a", "=", "1">>],
      [id |-> None, secret |-> <<"xyz">>,
       redirect |-> <<"https", ":", "/", "/", "x", "/", "cb">>],
      [id |-> <<"abc">>, secret |-> <<>>,
       redirect |-> <<"https", ":", "/", "/", "x", "/", "cb">>],
      [id |-> <<"abc">>, secret |-> <<"xyz">>, redirect |-> None] }

(* ------------------------------------------------------------- urlencode *)

\* urllib.parse.quote_plus on one token: unreserved chunks pass, a space
\* becomes "+", every other reserved character is percent-encoded.
QuoteChar(c) ==
    CASE c = " " -> "+"
      [] c = ":" -> "%3A"
      [] c = "/" -> "%2F"
      [] c = "?" -> "%3F"
      [] c = "&" -> "%26"
      [] c = "=" -> "%3D"
      [] c = "+" -> "%2B"
      [] c = "%" -> "%25"
      [] OTHER   -> c

RECURSIVE QuotePlus(_)
QuotePlus(s) ==
    IF s = <<>> THEN <<>> ELSE <<QuoteChar(Head(s))>> \o QuotePlus(Tail(s))

\* str(None) is "None": urlencode stringifies the values it is given.
Str(s) == IF s = None THEN <<"None">> ELSE s

\* sep.join(parts)
RECURSIVE Join(_, _)
Join(sep, parts) ==
    IF parts = <<>> THEN <<>>
    ELSE IF Len(parts) = 1 THEN Head(parts)
    ELSE Head(parts) \o <<sep>> \o Join(sep, Tail(parts))

\* urllib.parse.urlencode of a sequence of <<key, value>> pairs.
RECURSIVE urlencode(_)
urlencode(pairs) ==
    IF pairs = <<>> THEN <<>>
    ELSE LET kv == QuotePlus(Head(pairs)[1]) \o <<"=">> \o QuotePlus(Str(Head(pairs)[2]))
         IN  IF Len(pairs) = 1 THEN kv
             ELSE kv \o <<"&">> \o urlencode(Tail(pairs))

(* ------------------------------------------------------- token responses *)

\* Bodies the provider can answer the token POST with.
BodyT1 == "{\"access_token\":\"t1\",\"refresh_token\":\"r1\"}"
BodyT2 == "{\"access_token\":\"t2\",\"refresh_token\":\"r2\"}"
BodyErr == "{\"error\":\"invalid_grant\"}"
BodyEmpty == "{}"
BodyNull == "null"
BodyList == "[\"x\"]"
BodyHtml == "<html>oops</html>"

Bodies == {BodyT1, BodyT2, BodyErr, BodyEmpty, BodyNull, BodyList, BodyHtml}

\* The answers of the provider the model tries: every body but the error
\* body with status 200, and three answers with another status.
Responses ==
    { [status |-> 200, text |-> b] : b \in Bodies \ {BodyErr} }
    \cup { [status |-> 400, text |-> BodyErr],
           [status |-> 201, text |-> BodyT1],
           [status |-> 500, text |-> BodyHtml] }

\* A parsed JSON value: None, a dict (its keys, and the values of the two
\* keys the tools read), a list, or no value at all (not JSON).
JVal(kind, keys, at, rt) ==
    [kind |-> kind, keys |-> keys, access_token |-> at, refresh_token |-> rt]

PyNone == JVal("None", {}, "", "")

\* requests.Response.json(): kind "invalid" stands for the exception it raises.
Json(text) ==
    CASE text = BodyT1    -> JVal("dict", {"access_token", "refresh_token"}, "t1", "r1")
      [] text = BodyT2    -> JVal("dict", {"access_token", "refresh_token"}, "t2", "r2")
      [] text = BodyErr   -> JVal("dict", {"error"}, "", "")
      [] text = BodyEmpty -> JVal("dict", {}, "", "")
      [] text = BodyNull  -> PyNone
      [] text = BodyList  -> JVal("list", {}, "", "")
      [] OTHER            -> JVal("invalid", {}, "", "")

\* Python truthiness of a stored value: None and the empty dict are falsy.
Truthy(v) ==
    CASE v.kind = "None" -> FALSE
      [] v.kind = "dict" -> v.keys # {}
      [] OTHER           -> TRUE

\* Only a dict has .get; on None and on a list the attribute lookup raises.
HasGet(v) == v.kind = "dict"

\* v.get(key) on a dict: the value, or None (here "<None>") for a missing key.
Get(v, key) ==
    IF key \notin v.keys THEN "<None>"
    ELSE IF key = "access_token" THEN v.access_token
    ELSE IF key = "refresh_token" THEN v.refresh_token
    ELSE "<other>"

(* ----------------------------------------------------------------- state *)

\* Worker threads that run /oauth2callback; two are enough for two
\* exchanges to overlap.
Workers == {"w1", "w2"}

VARIABLES
    CLIENT_ID,      \* os.getenv("GOOGLE_CLIENT_ID"), read once at import
    CLIENT_SECRET,  \* os.getenv("GOOGLE_CLIENT_SECRET")
    REDIRECT_URI,   \* os.getenv("GOOGLE_REDIRECT_URI")
    stored_token,   \* the module global: PyNone or the last parsed token response
    cb,             \* per worker thread: where its oauth_callback call stands
    tool,           \* the tool call running on the event loop thread
    posts,          \* POSTs sent to the provider's token endpoint so far
    lastOk,         \* body text of the exchange that wrote stored_token last
    last            \* the step just taken: its request, response and effects

vars == <<CLIENT_ID, CLIENT_SECRET, REDIRECT_URI, stored_token, cb, tool,
          posts, lastOk, last>>

config == <<CLIENT_ID, CLIENT_SECRET, REDIRECT_URI>>

NoExchange == "<no exchange>"

IdleCall == [pc |-> "idle"]

Init ==
    /\ \E e \in Environments :
          /\ CLIENT_ID = e.id
          /\ CLIENT_SECRET = e.secret
          /\ REDIRECT_URI = e.redirect
    /\ stored_token = PyNone
    /\ cb = [w \in Workers |-> IdleCall]
    /\ tool = IdleCall
    /\ posts = 0
    /\ lastOk = NoExchange
    /\ last = [op |-> "startup"]

(* ---------------------------------------------------------------- router *)

\* dispatch with "/health" left out of the list.
dispatch_without_health(path) ==
    IF path \in {"/auth", "/oauth2callback"}
    THEN "call_next"
    ELSE "mcp_app"

\* MCPRouter.dispatch: the paths passed on to the FastAPI routes; every
\* other path is handed to the MCP app.
dispatch(path) ==
    IF path \in {"/auth", "/oauth2callback", "/health"}
    THEN "call_next"
    ELSE "mcp_app"

\* The paths FastAPI has a route for.
Routes == {"/auth", "/oauth2callback", "/health"}

\* Request paths tried against the router.
Paths == {"/", "/auth", "/oauth2callback", "/health", "/mcp", "/auth/", ""}

\* A request for a path no handler below serves: the router's decision is
\* all that happens (FastAPI answers 404, the MCP app answers for itself).
route_other(path) ==
    /\ ~(path \in Routes /\ dispatch(path) = "call_next")
    /\ last' = [op |-> "route", path |-> path, surface |-> dispatch(path)]
    /\ UNCHANGED <<config, stored_token, cb, tool, posts, lastOk>>

(* ----------------------------------------------------------------- /auth *)

\* The check of line 122 with the client secret forgotten.
ConfigMissing_no_secret(id, secret, redirect) ==
    ~StrTruthy(id) \/ ~StrTruthy(redirect)

\* Line 122: any of the three settings unset or empty.
ConfigMissing(id, secret, redirect) ==
    ~StrTruthy(id) \/ ~StrTruthy(secret) \/ ~StrTruthy(redirect)

\* Lines 126-134: the authorization URL.
AuthUrl(id, redirect) ==
    AUTH_ENDPOINT \o <<"?">> \o
    urlencode(<< <<(<<"client_id">>), id>>,
                 <<(<<"redirect_uri">>), redirect>>,
                 <<(<<"response_type">>), (<<"code">>)>>,
                 <<(<<"scope">>), Join(" ", SCOPES)>>,
                 <<(<<"access_type">>), (<<"offline">>)>>,
                 <<(<<"prompt">>), (<<"consent">>)>> >>)

start_auth ==
    /\ dispatch("/auth") = "call_next"
    /\ last' =
          IF ConfigMissing(CLIENT_ID, CLIENT_SECRET, REDIRECT_URI)
          THEN [op |-> "start_auth", path |-> "/auth", surface |-> "call_next",
                status |-> 500, detail |-> "OAuth environment variables missing",
                url_built |-> FALSE]
          ELSE [op |-> "start_auth", path |-> "/auth", surface |-> "call_next",
                status |-> 200, auth_url |-> AuthUrl(CLIENT_ID, REDIRECT_URI),
                url_built |-> TRUE]
    /\ UNCHANGED <<config, stored_token, cb, tool, posts, lastOk>>

(* ------------------------------------------------------- /oauth2callback *)

\* request.query_params.get("code"): None when the parameter is absent.
Codes == {None, <<>>, <<"validcode">>}

\* The check of line 140 as `if code is None`.
MissingCode_is_none(code) == code = None

\* Line 140: `if not code`.
MissingCode(code) == ~StrTruthy(code)

\* Lines 143-149: the form posted to the token endpoint.
TokenRequest(code) ==
    [url |-> TOKEN_URI, code |-> code, client_id |-> CLIENT_ID,
     client_secret |-> CLIENT_SECRET, redirect_uri |-> REDIRECT_URI,
     grant_type |-> "authorization_code"]

\* The check of line 151 as `status_code >= 500`.
ExchangeFailed_server_errors(status) == status >= 500

\* Line 151: the exchange is taken as failed unless the status is 200.
ExchangeFailed(status) == status # 200

\* Line 152: the detail of the 500 answer.
FailureDetail(text) == "Token exchange failed: " \o text

\* An answer of /oauth2callback to a request with this code; posted counts
\* the POSTs the call made.
CallbackAnswer(code, status, posted) ==
    [op |-> "oauth_callback", path |-> "/oauth2callback",
     surface |-> "call_next", code |-> code, status |-> status,
     posted |-> posted]

\* Lines 139-149 with the global cleared before the POST is sent.
callback_start_clears(w, code) ==
    /\ dispatch("/oauth2callback") = "call_next"
    /\ cb[w].pc = "idle"
    /\ ~MissingCode(code)
    /\ posts < MaxPosts
    /\ posts' = posts + 1
    /\ cb' = [cb EXCEPT ![w] = [pc |-> "posted", posted |-> 1,
                                request |-> TokenRequest(code)]]
    /\ last' = [op |-> "post", request |-> TokenRequest(code)]
    /\ stored_token' = PyNone
    /\ UNCHANGED <<config, tool, lastOk>>

\* Lines 139-149: the code is read and checked, and the POST is sent.
callback_start(w, code) ==
    /\ dispatch("/oauth2callback") = "call_next"
    /\ cb[w].pc = "idle"
    /\ IF MissingCode(code)
       THEN /\ last' = [detail |-> "Missing code"] @@ CallbackAnswer(code, 400, 0)
            /\ UNCHANGED <<cb, posts>>
       ELSE /\ posts < MaxPosts
            /\ posts' = posts + 1
            /\ cb' = [cb EXCEPT ![w] = [pc |-> "posted", posted |-> 1,
                                        request |-> TokenRequest(code)]]
            /\ last' = [op |-> "post", request |-> TokenRequest(code)]
    /\ UNCHANGED <<config, stored_token, tool, lastOk>>

\* Lines 143-152 with a retry: a failed exchange is posted once more.
callback_response_retries(w, resp) ==
    /\ cb[w].pc = "posted"
    /\ ExchangeFailed(resp.status)
    /\ IF cb[w].posted < 2 /\ posts < MaxPosts
       THEN /\ posts' = posts + 1
            /\ cb' = [cb EXCEPT ![w].posted = @ + 1]
            /\ last' = [op |-> "post", request |-> cb[w].request]
       ELSE /\ last' = [detail |-> FailureDetail(resp.text), provider |-> resp]
                       @@ CallbackAnswer(cb[w].request.code, 500, cb[w].posted)
            /\ cb' = [cb EXCEPT ![w] = IdleCall]
            /\ posts' = posts
    /\ UNCHANGED <<config, stored_token, tool, lastOk>>

\* Lines 151-154 with the assignment moved above the status check: a
\* failed exchange whose body parses is stored before the 500 is raised.
callback_response_stores_first(w, resp) ==
    /\ cb[w].pc = "posted"
    /\ Json(resp.text).kind # "invalid"
    /\ IF ExchangeFailed(resp.status)
       THEN /\ last' = [detail |-> FailureDetail(resp.text), provider |-> resp]
                       @@ CallbackAnswer(cb[w].request.code, 500, cb[w].posted)
            /\ cb' = [cb EXCEPT ![w] = IdleCall]
            /\ stored_token' = Json(resp.text)
       ELSE /\ last' = [op |-> "response"]
            /\ cb' = [cb EXCEPT ![w] = [pc |-> "store", posted |-> cb[w].posted,
                                        request |-> cb[w].request,
                                        provider |-> resp,
                                        parsed |-> Json(resp.text)]]
            /\ stored_token' = stored_token
    /\ UNCHANGED <<config, tool, posts, lastOk>>

\* Lines 143-154: the provider's answer arrives; a status other than 200
\* ends the call with 500, a body that is not JSON makes json() raise
\* (an unhandled exception: 500), anything else is parsed and is ready to
\* be stored.
callback_response(w, resp) ==
    /\ cb[w].pc = "posted"
    /\ IF ExchangeFailed(resp.status)
       THEN /\ last' = [detail |-> FailureDetail(resp.text), provider |-> resp]
                       @@ CallbackAnswer(cb[w].request.code, 500, cb[w].posted)
            /\ cb' = [cb EXCEPT ![w] = IdleCall]
       ELSE IF Json(resp.text).kind = "invalid"
       THEN /\ last' = [detail |-> "Internal Server Error", provider |-> resp]
                       @@ CallbackAnswer(cb[w].request.code, 500, cb[w].posted)
            /\ cb' = [cb EXCEPT ![w] = IdleCall]
       ELSE /\ last' = [op |-> "response"]
            /\ cb' = [cb EXCEPT ![w] = [pc |-> "store", posted |-> cb[w].posted,
                                        request |-> cb[w].request,
                                        provider |-> resp,
                                        parsed |-> Json(resp.text)]]
    /\ UNCHANGED <<config, stored_token, tool, posts, lastOk>>

\* Line 154 as a merge: a dict already stored is updated with the keys of
\* the response instead of being replaced.
StoreToken_update(old, parsed) ==
    IF old.kind = "dict" /\ parsed.kind = "dict"
    THEN JVal("dict", old.keys \cup parsed.keys,
              IF "access_token" \in parsed.keys
              THEN parsed.access_token ELSE old.access_token,
              IF "refresh_token" \in parsed.keys
              THEN parsed.refresh_token ELSE old.refresh_token)
    ELSE parsed

\* What line 154 leaves in the global, given its old value and the parsed
\* response: the response replaces the old value.
StoreToken(old, parsed) == parsed

\* Lines 154-155: the global is rebound to the parsed response and the
\* call answers 200.  A get_auth_status call under way has been overtaken.
callback_store(w) ==
    /\ cb[w].pc = "store"
    /\ stored_token' = StoreToken(stored_token, cb[w].parsed)
    /\ lastOk' = cb[w].provider.text
    /\ cb' = [cb EXCEPT ![w] = IdleCall]
    /\ tool' = IF tool.pc \in {"owner", "message"}
               THEN [tool EXCEPT !.raced = TRUE]
               ELSE tool
    /\ last' = [body |-> [status |-> "connected", owner |-> OWNER_EMAIL],
                provider |-> cb[w].provider]
               @@ CallbackAnswer(cb[w].request.code, 200, cb[w].posted)
    /\ UNCHANGED <<config, posts>>

(* --------------------------------------------------------------- /health *)

\* Lines 111 and 161: `stored_token is not None`.
IsNotNone(v) == v.kind # "None"

health ==
    /\ dispatch("/health") = "call_next"
    /\ last' = [op |-> "health", path |-> "/health", surface |-> "call_next",
                status |-> 200,
                body |-> [status |-> "ok",
                          authenticated |-> IsNotNone(stored_token),
                          owner |-> OWNER_EMAIL]]
    /\ UNCHANGED <<config, stored_token, cb, tool, posts, lastOk>>

(* ------------------------------------------------------------- MCP tools *)

NotConnected == "No Google account connected. Please authenticate first at /auth"

\* max_results arguments the tools are called with.
MaxResultsArgs == {20, 101, 500}

\* The search query tried: a name with a quote in it.
Queries == { <<"o", "'", "brien">> }

\* Python's min on two ints.
Min(a, b) == IF a <= b THEN a ELSE b

\* Lines 39 and 93 without the clamp.
PageSize_unclamped(max_results) == max_results

\* Lines 39 and 93: the page size asked of Drive.
PageSize(max_results) == Min(max_results, 100)

\* Line 90: query.replace("'", "\\'").
RECURSIVE EscapeQuotes(_)
EscapeQuotes(query) ==
    IF query = <<>> THEN <<>>
    ELSE (IF Head(query) = "'" THEN <<"\\", "'">> ELSE <<Head(query)>>)
         \o EscapeQuotes(Tail(query))

\* Line 92: the q parameter of the search.
NameContains(query) == <<"name contains ", "'">> \o EscapeQuotes(query) \o <<"'">>

\* What the Drive collaborator can do with a delegated call: answer with a
\* page of files, answer without a "files" key, or raise.
DriveOutcomes ==
    { [kind |-> "files", files |-> <<"f1">>],
      [kind |-> "nofiles"],
      [kind |-> "raise", message |-> "HttpError 401"] }

\* The guard of lines 32 and 73 with the `not` dropped.
NotAuthenticated_inverted(v) == Truthy(v)

\* Lines 32 and 73: `if not stored_token`.
NotAuthenticated(v) == ~Truthy(v)

\* The MCP app serves the tools under /mcp.
tool_path == "/mcp"

\* A tool's answer.  delegated: whether Drive was called for it.
ToolAnswer(name, delegated, result) ==
    [op |-> name, path |-> tool_path, surface |-> "mcp_app",
     delegated |-> delegated, result |-> result]

\* Lines 62-63 and 104-105 without the except clause: the exception leaves
\* the tool.
Caught_reraised(message) == [exception |-> message]

\* Lines 62-63 and 104-105: an exception raised in the try block becomes
\* the error of the result.
Caught(message) == [error |-> message]

AttributeError == "object has no attribute 'get'"

\* Lines 32-39 and 73-74: the guard; list_drive_files clamps max_results
\* right away, search_drive_files keeps the argument until line 93.
tool_start(name, max_results, query) ==
    /\ dispatch(tool_path) = "mcp_app"
    /\ tool.pc = "idle"
    /\ IF NotAuthenticated(stored_token)
       THEN /\ last' = ToolAnswer(name, FALSE, [error |-> NotConnected])
            /\ tool' = tool
       ELSE /\ tool' = [pc |-> "token", name |-> name, query |-> query,
                        arg |-> max_results,
                        max_results |-> IF name = "list_drive_files"
                                        THEN PageSize(max_results)
                                        ELSE max_results]
            /\ last' = [op |-> "read"]
    /\ UNCHANGED <<config, stored_token, cb, posts, lastOk>>

\* Lines 42 and 81: stored_token is read again for the access token.
tool_read_token ==
    /\ tool.pc = "token"
    /\ IF HasGet(stored_token)
       THEN /\ tool' = [token |-> Get(stored_token, "access_token")]
                       @@ [tool EXCEPT !.pc = "refresh"]
            /\ last' = [op |-> "read"]
       ELSE /\ tool' = IdleCall
            /\ last' = ToolAnswer(tool.name, FALSE, Caught(AttributeError))
    /\ UNCHANGED <<config, stored_token, cb, posts, lastOk>>

\* Lines 43 and 82: stored_token is read a third time for the refresh
\* token; the credentials object is then complete.
tool_read_refresh ==
    /\ tool.pc = "refresh"
    /\ IF HasGet(stored_token)
       THEN /\ tool' = [refresh_token |-> Get(stored_token, "refresh_token")]
                       @@ [tool EXCEPT !.pc = "drive"]
            /\ last' = [op |-> "read"]
       ELSE /\ tool' = IdleCall
            /\ last' = ToolAnswer(tool.name, FALSE, Caught(AttributeError))
    /\ UNCHANGED <<config, stored_token, cb, posts, lastOk>>

\* Lines 41-54 and 80-95: the call handed to the Drive collaborator by the
\* tool call that stands before it (tool.pc = "drive").
Delegated ==
    [token |-> tool.token, refresh_token |-> tool.refresh_token,
     token_uri |-> TOKEN_URI, client_id |-> CLIENT_ID,
     client_secret |-> CLIENT_SECRET, scopes |-> SCOPES,
     pageSize |-> IF tool.name = "list_drive_files"
                  THEN tool.max_results
                  ELSE PageSize(tool.max_results),
     q |-> IF tool.name = "list_drive_files"
           THEN None
           ELSE NameContains(tool.query)]

\* Lines 56-61 and 97-103: the result built from Drive's answer.
Success(files) ==
    IF tool.name = "list_drive_files"
    THEN [success |-> TRUE, count |-> Len(files), files |-> files]
    ELSE [success |-> TRUE, query |-> tool.query, count |-> Len(files),
          files |-> files]

\* Lines 50-63 and 89-105: Drive is called and answers or raises; an
\* exception is caught and becomes the error of the result.
tool_drive(outcome) ==
    /\ tool.pc = "drive"
    /\ last' = [raised |-> outcome.kind = "raise"]
               @@ ToolAnswer(tool.name, TRUE,
                     CASE outcome.kind = "files" -> Success(outcome.files)
                       [] outcome.kind = "nofiles" -> Success(<<>>)
                       [] OTHER -> Caught(outcome.message))
    /\ tool' = IdleCall
    /\ UNCHANGED <<config, stored_token, cb, posts, lastOk>>

\* Lines 112-113: `OWNER_EMAIL if stored_token else None`, and the message.
OwnerOf(v) == IF Truthy(v) THEN OWNER_EMAIL ELSE "<None>"

MessageOf(v) ==
    IF Truthy(v) THEN "Connected to Google Drive"
    ELSE "Not authenticated. Please visit /auth to connect."

\* Line 111: get_auth_status reads stored_token for "authenticated".
status_start ==
    /\ dispatch(tool_path) = "mcp_app"
    /\ tool.pc = "idle"
    /\ tool' = [pc |-> "owner", name |-> "get_auth_status", raced |-> FALSE,
                authenticated |-> IsNotNone(stored_token)]
    /\ last' = [op |-> "read"]
    /\ UNCHANGED <<config, stored_token, cb, posts, lastOk>>

\* Line 112: it reads stored_token again for "owner".
status_owner ==
    /\ tool.pc = "owner"
    /\ tool' = [owner |-> OwnerOf(stored_token)]
               @@ [tool EXCEPT !.pc = "message"]
    /\ last' = [op |-> "read"]
    /\ UNCHANGED <<config, stored_token, cb, posts, lastOk>>

\* Line 113: and a third time for "message"; the dict is returned.
status_message ==
    /\ tool.pc = "message"
    /\ last' = [raced |-> tool.raced]
               @@ ToolAnswer("get_auth_status", FALSE,
                     [authenticated |-> tool.authenticated,
                      owner |-> tool.owner,
                      message |-> MessageOf(stored_token)])
    /\ tool' = IdleCall
    /\ UNCHANGED <<config, stored_token, cb, posts, lastOk>>

(* ---------------------------------------------------------- specification *)

Next ==
    \/ \E path \in Paths : route_other(path)
    \/ start_auth
    \/ \E w \in Workers, code \in Codes : callback_start(w, code)
    \/ \E w \in Workers, resp \in Responses : callback_response(w, resp)
    \/ \E w \in Workers : callback_store(w)
    \/ health
    \/ \E max_results \in MaxResultsArgs :
          tool_start("list_drive_files", max_results, None)
    \/ \E max_results \in MaxResultsArgs, query \in Queries :
          tool_start("search_drive_files", max_results, query)
    \/ tool_read_token
    \/ tool_read_refresh
    \/ \E outcome \in DriveOutcomes : tool_drive(outcome)
    \/ status_start
    \/ status_owner
    \/ status_message

Spec == Init /\ [][Next]_vars

(* ------------------------------------------------------------ properties *)

\* The step just taken answered a request of this kind.
Answered(op) == last.op = op

C2_StoreIsLastExchange ==
    stored_token = IF lastOk = NoExchange THEN PyNone ELSE Json(lastOk)

\* The exchange of the second POST has just completed and stored an empty
\* object.
C2_Witness ==
    /\ Answered("oauth_callback") /\ last.status = 200
    /\ posts = 2
    /\ lastOk = BodyEmpty
    /\ \A w \in Workers : cb[w].pc = "idle"

\* A status outside 200..299.
NonSuccess(status) == status < 200 \/ status > 299

\* C3: a token POST answered with a non-success status makes the callback
\* answer 500 with the provider's body in the detail, and the step that
\* answers so leaves the stored credential as it was.
C3_FailedExchange ==
    /\ [](Answered("oauth_callback") /\ last.posted > 0
            /\ NonSuccess(last.provider.status)
          => /\ last.status = 500
             /\ last.detail = "Token exchange failed: " \o last.provider.text)
    /\ [][last'.op = "oauth_callback" /\ last'.status = 500
          => stored_token' = stored_token /\ lastOk' = lastOk]_vars

\* An exchange has just failed with the provider's 400 while a credential
\* of an earlier exchange is stored.
C3_Witness ==
    /\ Answered("oauth_callback") /\ last.status = 500
    /\ last.provider = [status |-> 400, text |-> BodyErr]
    /\ stored_token = Json(BodyT1)

\* C4: a callback without a code, or with an empty one, answers 400; the
\* step sends no POST to the token endpoint and leaves the stored
\* credential as it was.
C4_MissingCode ==
    /\ [](Answered("oauth_callback") /\ last.code \in {None, <<>>}
          => last.status = 400 /\ last.posted = 0)
    /\ [][last'.op = "oauth_callback" /\ last'.code \in {None, <<>>}
          => posts' = posts /\ cb' = cb /\ stored_token' = stored_token]_vars
    /\ [][posts' # posts => last'.op = "post" /\ StrTruthy(last'.request.code)]_vars

\* A callback with an empty code has just been refused while a credential
\* is stored.
C4_Witness ==
    /\ Answered("oauth_callback") /\ last.status = 400 /\ last.code = <<>>
    /\ stored_token = Json(BodyT1)

\* A URL read back: split at sep, and quote_plus undone.
SplitOn(s, sep) ==
    LET cuts == {i \in 1..Len(s) : s[i] = sep}
        before(i) == Cardinality({j \in cuts : j < i})
        piece(k) == {i \in 1..Len(s) : i \notin cuts /\ before(i) = k - 1}
    IN  [k \in 1..(Cardinality(cuts) + 1) |->
            IF piece(k) = {} THEN <<>>
            ELSE SubSeq(s, CHOOSE i \in piece(k) : \A j \in piece(k) : i <= j,
                           CHOOSE i \in piece(k) : \A j \in piece(k) : i >= j)]

UnquoteChar(c) ==
    CASE c = "+"   -> " "
      [] c = "%3A" -> ":"
      [] c = "%2F" -> "/"
      [] c = "%3F" -> "?"
      [] c = "%26" -> "&"
      [] c = "%3D" -> "="
      [] c = "%2B" -> "+"
      [] c = "%25" -> "%"
      [] OTHER     -> c

RECURSIVE UnquotePlus(_)
UnquotePlus(s) ==
    IF s = <<>> THEN <<>> ELSE <<UnquoteChar(Head(s))>> \o UnquotePlus(Tail(s))

\* The query parameters of a URL, as the set of its <<key, value>> pairs;
\* a part of the query that is no key=value pair is kept as it is.
QueryParams(url) ==
    LET parts == SplitOn(url, "?")
        pairs == IF Len(parts) = 2 THEN SplitOn(parts[2], "&") ELSE <<>>
    IN  { IF Len(SplitOn(pairs[i], "=")) = 2
          THEN <<UnquotePlus(SplitOn(pairs[i], "=")[1]),
                 UnquotePlus(SplitOn(pairs[i], "=")[2])>>
          ELSE pairs[i] : i \in 1..Len(pairs) }

Unset(v) == v = None \/ Len(v) = 0

\* C5: /auth answers 500, with no URL built, exactly when the client id,
\* the client secret or the redirect URI is unset or empty; otherwise it
\* answers with a URL on the provider's authorization endpoint whose query
\* holds client_id, redirect_uri, response_type=code, the scope,
\* access_type=offline and prompt=consent.  The step sends no POST and
\* leaves the stored credential as it was.
C5_StartAuth ==
    /\ [](Answered("start_auth") =>
            /\ last.status = 500
                  <=> Unset(CLIENT_ID) \/ Unset(CLIENT_SECRET) \/ Unset(REDIRECT_URI)
            /\ last.status = 500 => ~last.url_built
            /\ last.status # 500 =>
                  /\ last.status = 200
                  /\ SplitOn(last.auth_url, "?")[1] =
                        <<"https", ":", "/", "/", "accounts.google.com", "/",
                          "o", "/", "oauth2", "/", "v2", "/", "auth">>
                  /\ QueryParams(last.auth_url) =
                        { <<(<<"client_id">>), CLIENT_ID>>,
                          <<(<<"redirect_uri">>), REDIRECT_URI>>,
                          <<(<<"response_type">>), (<<"code">>)>>,
                          <<(<<"scope">>),
                            (<<"https", ":", "/", "/", "www.googleapis.com",
                               "/", "auth", "/", "drive.metadata.readonly">>)>>,
                          <<(<<"access_type">>), (<<"offline">>)>>,
                          <<(<<"prompt">>), (<<"consent">>)>> })
    /\ [][last'.op = "start_auth"
          => posts' = posts /\ cb' = cb /\ stored_token' = stored_token]_vars

\* /auth has just failed in a process whose client secret alone is empty,
\* while a credential is stored.
C5_Witness ==
    /\ Answered("start_auth") /\ last.status = 500
    /\ CLIENT_SECRET = <<>> /\ ~Unset(CLIENT_ID) /\ ~Unset(REDIRECT_URI)
    /\ stored_token = Json(BodyT1)

DriveTools == {"list_drive_files", "search_drive_files"}

\* C6: while no credential is stored, a list_drive_files or
\* search_drive_files call ends at its guard: it answers the
\* not-connected error as a result, and does not go on to read the token
\* or to call Drive.
C6_NotAuthenticated ==
    /\ [](last.op \in DriveTools /\ last.result = [error |-> NotConnected]
          => ~last.delegated)
    /\ [][stored_token.kind = "None" /\ tool.pc = "idle"
          => /\ tool'.pc \notin {"token", "refresh", "drive"}
             /\ last'.op \in DriveTools
                   => /\ last'.result = [error |-> NotConnected]
                      /\ ~last'.delegated]_vars

\* search_drive_files has just answered not-connected with nothing stored.
C6_Witness ==
    /\ Answered("search_drive_files")
    /\ last.result = [error |-> NotConnected]
    /\ stored_token = PyNone /\ lastOk = NoExchange

\* C7: whatever is stored and whatever Drive does, an answer of
\* list_drive_files or search_drive_files is a result object with an error
\* or with files and their count; an exception of Drive ends as the error
\* of the result; and a call under way can always take its next step.
C7_WellFormedResult ==
    /\ last.op \in DriveTools =>
          /\ \/ "error" \in DOMAIN last.result
             \/ /\ {"files", "count"} \subseteq DOMAIN last.result
                /\ last.result.count = Len(last.result.files)
          /\ last.delegated /\ last.raised => "error" \in DOMAIN last.result
    /\ tool.pc = "token" => ENABLED tool_read_token
    /\ tool.pc = "refresh" => ENABLED tool_read_refresh
    /\ tool.pc = "drive" => \A o \in DriveOutcomes : ENABLED tool_drive(o)

\* Drive has just raised on a delegated call, and the tool answered.
C7_Witness ==
    /\ last.op \in DriveTools /\ last.delegated /\ last.raised
    /\ last.result = [error |-> "HttpError 401"]

\* C8: the page size handed to Drive is the smaller of max_results and
\* 100.
C8_Clamp ==
    tool.pc = "drive" =>
        /\ Delegated.pageSize = IF tool.arg < 100 THEN tool.arg ELSE 100
        /\ Delegated.pageSize <= 100

\* list_drive_files(max_results=500) stands before its Drive call with a
\* page size of 100.
C8_Witness ==
    /\ tool.pc = "drive" /\ tool.name = "list_drive_files"
    /\ tool.arg = 500 /\ Delegated.pageSize = 100

\* C9 as stated: a get_auth_status call that no exchange overtook answers
\* authenticated=false and no owner while no exchange has succeeded, and
\* authenticated=true with the configured owner after one has, whatever
\* body that exchange stored.
C9_StatusReflectsStore ==
    Answered("get_auth_status") /\ ~last.raced =>
        IF lastOk = NoExchange
        THEN ~last.result.authenticated /\ last.result.owner = "<None>"
        ELSE last.result.authenticated /\ last.result.owner = OWNER_EMAIL

\* C10 as stated: the access token and the refresh token handed to Drive
\* are those of one token response.
C10_OneCredential ==
    tool.pc = "drive" =>
        \E b \in Bodies :
            /\ Json(b).kind = "dict"
            /\ Delegated.token = Get(Json(b), "access_token")
            /\ Delegated.refresh_token = Get(Json(b), "refresh_token")


\* C11 as stated: the stored credential is absent, or is a credential with
\* a non-empty access token.
C11_AbsentOrAccessToken ==
    \/ stored_token = PyNone
    \/ /\ stored_token.kind = "dict"
       /\ "access_token" \in stored_token.keys
       /\ stored_token.access_token # ""

\* C12 as stated: once a credential is present, no step makes the store
\* absent again.
C12_NeverRemoved ==
    [][stored_token # PyNone => stored_token' # PyNone]_vars


\* C13: the store changes only in the step in which a callback whose
\* exchange succeeded answers 200, and then to the parsed body of that
\* exchange; the steps of /auth, /health, the three tools, the router and
\* every callback that fails leave it as it was.
C13_OnlyWritePath ==
    /\ [][stored_token' # stored_token
          => /\ last'.op = "oauth_callback" /\ last'.status = 200
             /\ stored_token' = Json(last'.provider.text)]_vars
    /\ [][\/ last'.op \in {"start_auth", "health", "route", "read",
                           "get_auth_status", "list_drive_files",
                           "search_drive_files"}
          \/ last'.op = "oauth_callback" /\ last'.status # 200
          => stored_token' = stored_token]_vars

\* A callback has just stored the second credential while a tool call
\* stands before its Drive call.
C13_Witness ==
    /\ Answered("oauth_callback") /\ last.status = 200
    /\ stored_token = Json(BodyT2)
    /\ tool.pc = "drive"


\* An exchange is in flight: its POST is sent and the global not yet
\* written.
InFlight(w) == cb[w].pc \in {"posted", "store"}

\* C14: sending the POST and receiving its answer leave the store as it
\* was, and /health and a tool call can run meanwhile; the store changes
\* in one step, taken by a callback that holds the parsed body of a 200
\* answer, to that body; and once no exchange is in flight the store holds
\* the whole body of the exchange that wrote last.
C14_WriteAfterResponse ==
    /\ [][last'.op \in {"post", "response"} => stored_token' = stored_token]_vars
    /\ []((\E w \in Workers : InFlight(w))
            => /\ ENABLED health
               /\ tool.pc = "idle" =>
                     /\ ENABLED status_start
                     /\ ENABLED tool_start("list_drive_files", 20, None))
    /\ [][stored_token' # stored_token
          => \E w \in Workers :
                /\ cb[w].pc = "store" /\ cb'[w].pc = "idle"
                /\ cb[w].provider.status = 200
                /\ cb[w].parsed = Json(cb[w].provider.text)
                /\ stored_token' = cb[w].parsed]_vars
    /\ []((\A w \in Workers : ~InFlight(w)) /\ lastOk # NoExchange
            => stored_token = Json(lastOk))

\* Two exchanges overlap: one has just stored the second credential while
\* the other still holds the parsed first one, which it will store last.
C14_Witness ==
    /\ Answered("oauth_callback") /\ last.status = 200
    /\ stored_token = Json(BodyT2)
    /\ \E w \in Workers : cb[w].pc = "store" /\ cb[w].parsed = Json(BodyT1)


\* C15: a callback with a non-empty code has sent one POST while it is in
\* flight and when it answers, whatever the answer; a POST is only ever
\* sent by a callback that starts, one at a time.
C15_ExactlyOnePost ==
    /\ [](\A w \in Workers : InFlight(w) => cb[w].posted = 1)
    /\ [](Answered("oauth_callback") /\ StrTruthy(last.code) => last.posted = 1)
    /\ [][posts' # posts
          => /\ posts' = posts + 1
             /\ \E w \in Workers : cb[w].pc = "idle" /\ cb'[w].pc = "posted"]_vars

\* The only exchange so far has just failed, after its one POST.
C15_Witness ==
    /\ Answered("oauth_callback") /\ last.status = 500
    /\ last.provider.status = 400
    /\ last.posted = 1 /\ posts = 1


\* C16 as stated: in every state /health and get_auth_status report
\* authenticated=true exactly when list_drive_files and search_drive_files
\* would get past their guard.
C16_ViewsAgree ==
    LET health_view == IsNotNone(stored_token)
        status_view == IsNotNone(stored_token)
        tools_view  == ~NotAuthenticated(stored_token)
    IN  (health_view <=> status_view) /\ (status_view <=> tools_view)

====
